---- MODULE Spec2Model ----
(***************************************************************************)
(* Model of the provisioning helpers of templates/common.py and of the     *)
(* setup sequence of kb-test.py.  The AWS services the code talks to       *)
(* (S3 Vectors, IAM/STS, Bedrock Agent) are modelled as the state the API  *)
(* calls read and change; every function of the source is an operator that *)
(* threads that state through the calls in the order the code makes them.  *)
(* An API call can raise: the set F of an invocation names the call sites  *)
(* at which the service raises an error the code does not expect.          *)
(***************************************************************************)
EXTENDS Integers, Sequences, FiniteSets, TLC

VARIABLES s3v, iam, bedrock, pc, run, calls, last, prev, ncalls

vars == <<s3v, iam, bedrock, pc, run, calls, last, prev, ncalls>>

(***************************************************************************)
(* Bounds of the model.                                                    *)
(***************************************************************************)
MaxCalls == 2
MaxFaults == 1

(***************************************************************************)
(* Names the calls are made with.                                          *)
(***************************************************************************)
BucketNames == {"bedrock-vector-bucket", "other-bucket"}
IndexNames == {"bedrock-vector-index", "other-index"}

None == <<>>

FaultSets(sites) == {F \in SUBSET sites : Cardinality(F) <= MaxFaults}

(***************************************************************************)
(* Outcome of a function: the service state it leaves, the value it        *)
(* returns, the API calls it made, and whether an exception left it.       *)
(* Catch is an enclosing "except Exception" handler that returns v.        *)
(***************************************************************************)
Ret(s, ret, cs) == [s |-> s, ret |-> ret, calls |-> cs, exc |-> FALSE]
Raise(s, cs) == [s |-> s, ret |-> None, calls |-> cs, exc |-> TRUE]
Catch(r, v) == IF r.exc THEN [r EXCEPT !.ret = v, !.exc = FALSE] ELSE r

(***************************************************************************)
(* S3 Vectors service.  indexes[b] is the set of indexes of bucket b;      *)
(* order is the (stable, unspecified) order in which list_indexes reports  *)
(* them.                                                                   *)
(***************************************************************************)
IndexArn(b, i) == <<"index", b, i>>

IndexOrders == {o \in [1..Cardinality(IndexNames) -> IndexNames] :
                  \A i \in IndexNames : \E k \in DOMAIN o : o[k] = i}

create_vector_bucket(s, b, fault) ==
    IF fault THEN [s |-> s, err |-> "Other"]
    ELSE IF b \in s.buckets THEN [s |-> s, err |-> "already exists"]
    ELSE [s |-> [s EXCEPT !.buckets = @ \cup {b}], err |-> "OK"]

create_index(s, b, i, fault) ==
    IF fault \/ b \notin s.buckets THEN [s |-> s, err |-> "Other"]
    ELSE IF i \in s.indexes[b] THEN [s |-> s, err |-> "already exists"]
    ELSE [s |-> [s EXCEPT !.indexes[b] = @ \cup {i}], err |-> "OK"]

list_indexes(s, b, fault, empty) ==
    IF fault \/ b \notin s.buckets THEN [indexes |-> <<>>, err |-> "Other"]
    ELSE IF empty THEN [indexes |-> <<>>, err |-> "OK"]
    ELSE [indexes |-> SelectSeq([k \in DOMAIN s.order |->
                                   [indexName |-> s.order[k],
                                    indexArn |-> IndexArn(b, s.order[k])]],
                                LAMBDA x : x.indexName \in s.indexes[b]),
          err |-> "OK"]

S3Sites == {"create_vector_bucket", "create_index", "list_indexes",
            "list_indexes:empty"}

(***************************************************************************)
(* setup_s3_vectors: create the bucket, create the index, list the indexes *)
(* of the bucket and return the ARN of the first one listed.               *)
(***************************************************************************)
setup_s3_vectors_list(s, b, i, F, cs) ==
    LET r == list_indexes(s, b, "list_indexes" \in F, "list_indexes:empty" \in F)
        cs2 == Append(cs, "list_indexes")
    IN  IF r.err # "OK" \/ r.indexes = <<>>
        THEN Ret(s, None, cs2)
        ELSE Ret(s, r.indexes[1].indexArn, cs2)

\* Variant that treats an "already exists" answer of create_index as a failure.
setup_s3_vectors_index_strict(s, b, i, F, cs) ==
    LET r == create_index(s, b, i, "create_index" \in F)
        cs2 == Append(cs, "create_index")
    IN  IF r.err = "OK"
        THEN setup_s3_vectors_list(r.s, b, i, F, cs2)
        ELSE Ret(r.s, None, cs2)

setup_s3_vectors_index(s, b, i, F, cs) ==
    LET r == create_index(s, b, i, "create_index" \in F)
        cs2 == Append(cs, "create_index")
    IN  IF r.err \in {"OK", "already exists"}
        THEN setup_s3_vectors_list(r.s, b, i, F, cs2)
        ELSE Ret(r.s, None, cs2)

setup_s3_vectors(s, b, i, F) ==
    LET r == create_vector_bucket(s, b, "create_vector_bucket" \in F)
        cs == <<"create_vector_bucket">>
    IN  IF r.err \in {"OK", "already exists"}
        THEN setup_s3_vectors_index(r.s, b, i, F, cs)
        ELSE Ret(r.s, None, cs)

(***************************************************************************)
(* IAM and STS.  roles and users are the principals that exist, policies   *)
(* the customer-managed policies (name, ARN, stored document), attached    *)
(* the triples <<principal type, principal name, policy ARN>>.             *)
(***************************************************************************)
RoleNames == {"kb-service-role"}
UserNames == {"learner"}
AttachTypes == {"user", "role", "group"}
Documents == {"S3VectorsFullAccess", "OtherDocument"}
Account == "123456789012"
max_retries == 24
VerifyFailures == {0, 1, max_retries}

PolicyArn(account_id, policy_name) == <<"arn:aws:iam", account_id, "policy", policy_name>>
RoleArn(account_id, role_name) == <<"arn:aws:iam", account_id, "role", role_name>>
AmazonBedrockFullAccess == PolicyArn("aws", "AmazonBedrockFullAccess")
AmazonS3FullAccess == PolicyArn("aws", "AmazonS3FullAccess")
CustomPolicyName(role_name) == role_name \o "-s3vectors-policy"
PolicyNames == {CustomPolicyName(r) : r \in RoleNames}
JsonDumps(document) == <<"json", document>>

PrincipalExists(s, t, n) == IF t = "user" THEN n \in s.users ELSE n \in s.roles

PolicyExists(s, arn) ==
    \/ arn \in {AmazonBedrockFullAccess, AmazonS3FullAccess}
    \/ \E p \in s.policies : p.arn = arn

get_principal(s, t, n, fault) ==
    IF fault THEN "Other"
    ELSE IF PrincipalExists(s, t, n) THEN "OK" ELSE "NoSuchEntity"

attach_principal_policy(s, t, n, arn, fault) ==
    IF fault THEN [s |-> s, err |-> "Other"]
    ELSE IF ~PrincipalExists(s, t, n) \/ ~PolicyExists(s, arn)
         THEN [s |-> s, err |-> "NoSuchEntity"]
    ELSE [s |-> [s EXCEPT !.attached = @ \cup {<<t, n, arn>>}], err |-> "OK"]

iam_create_policy(s, policy_name, document, fault) ==
    IF fault THEN [s |-> s, err |-> "Other"]
    ELSE IF \E p \in s.policies : p.name = policy_name
         THEN [s |-> s, err |-> "EntityAlreadyExists"]
    ELSE [s |-> [s EXCEPT !.policies = @ \cup
                   {[name |-> policy_name,
                     arn |-> PolicyArn(Account, policy_name),
                     document |-> document]}],
          err |-> "OK"]

iam_create_role(s, role_name, fault) ==
    IF fault THEN [s |-> s, err |-> "Other"]
    ELSE IF role_name \in s.roles THEN [s |-> s, err |-> "EntityAlreadyExists"]
    ELSE [s |-> [s EXCEPT !.roles = @ \cup {role_name}], err |-> "OK"]

(***************************************************************************)
(* attach_policy: validate the principal, list its attached policies,      *)
(* attach the policy unless the listing shows it.                          *)
(***************************************************************************)
AttachSites == {"attach.get_principal", "attach.list_attached:ClientError",
                "attach.list_attached:Other", "attach.attach"}

\* Variant that reports success whatever the attach call answers.
attach_policy_attach_unchecked(s, t, n, arn, F, cs) ==
    LET r == attach_principal_policy(s, t, n, arn, "attach.attach" \in F)
    IN  Ret(r.s, <<TRUE, arn>>, Append(cs, "attach_" \o t \o "_policy"))

attach_policy_attach(s, t, n, arn, F, cs) ==
    LET r == attach_principal_policy(s, t, n, arn, "attach.attach" \in F)
        cs2 == Append(cs, "attach_" \o t \o "_policy")
    IN  IF r.err = "OK" THEN Ret(r.s, <<TRUE, arn>>, cs2)
        ELSE Ret(r.s, <<FALSE, None>>, cs2)

attach_policy_check(s, t, n, arn, F, cs) ==
    LET cs2 == Append(cs, "list_attached_" \o t \o "_policies")
        already_attached == IF "attach.list_attached:ClientError" \in F THEN FALSE
                            ELSE <<t, n, arn>> \in s.attached
    IN  IF "attach.list_attached:Other" \in F THEN Ret(s, <<FALSE, None>>, cs2)
        ELSE IF already_attached THEN Ret(s, <<TRUE, arn>>, cs2)
        ELSE attach_policy_attach(s, t, n, arn, F, cs2)

attach_policy(s, t, n, arn, F) ==
    IF t \notin {"user", "role"} THEN Ret(s, <<FALSE, None>>, <<>>)
    ELSE LET cs == <<"get_" \o t>>
         IN  IF get_principal(s, t, n, "attach.get_principal" \in F) # "OK"
             THEN Ret(s, <<FALSE, None>>, cs)
             ELSE attach_policy_check(s, t, n, arn, F, cs)

(***************************************************************************)
(* create_policy: the ARN is formatted from the account id and the name;   *)
(* EntityAlreadyExists from the create call is accepted.                   *)
(***************************************************************************)
PolicySites == {"policy.get_caller_identity", "policy.create_policy"}

\* Variant that does not accept EntityAlreadyExists from the create call.
create_policy_try_no_reuse(s, policy_name, policy_document, F) ==
    IF "policy.get_caller_identity" \in F
    THEN Raise(s, <<"get_caller_identity">>)
    ELSE LET r == iam_create_policy(s, policy_name, JsonDumps(policy_document),
                                    "policy.create_policy" \in F)
             cs == <<"get_caller_identity", "create_policy">>
         IN  IF r.err = "OK"
             THEN Ret(r.s, PolicyArn(Account, policy_name), cs)
             ELSE Raise(r.s, cs)

create_policy_try(s, policy_name, policy_document, F) ==
    IF "policy.get_caller_identity" \in F
    THEN Raise(s, <<"get_caller_identity">>)
    ELSE LET r == iam_create_policy(s, policy_name, JsonDumps(policy_document),
                                    "policy.create_policy" \in F)
             cs == <<"get_caller_identity", "create_policy">>
         IN  IF r.err \in {"OK", "EntityAlreadyExists"}
             THEN Ret(r.s, PolicyArn(Account, policy_name), cs)
             ELSE Raise(r.s, cs)

create_policy(s, policy_name, policy_document, F) ==
    Catch(create_policy_try(s, policy_name, policy_document, F), None)

(***************************************************************************)
(* attach_custom_policy: read the policy document, create_policy, then     *)
(* attach_policy.                                                          *)
(***************************************************************************)
CustomSites == {"custom.open"} \cup PolicySites \cup AttachSites

attach_custom_policy(s, policy_name, policy_document, t, n, F) ==
    IF "custom.open" \in F THEN Ret(s, None, <<>>)
    ELSE LET p == create_policy(s, policy_name, policy_document, F)
         IN  IF p.ret = None THEN Ret(p.s, None, p.calls)
             ELSE LET a == attach_policy(p.s, t, n, p.ret, F)
                  IN  Ret(a.s, IF a.ret[1] THEN p.ret ELSE None, p.calls \o a.calls)

(***************************************************************************)
(* create_knowledge_base_role.  k is the number of verification attempts   *)
(* whose get_role raises.                                                  *)
(***************************************************************************)
RoleSites == {"role.get_caller_identity", "role.get_role", "role.create_role",
              "role.attach:AmazonBedrockFullAccess", "role.attach:AmazonS3FullAccess"}
             \cup CustomSites

role_verify(s, role_name, k, cs) ==
    LET ready == role_name \in s.roles /\ k < max_retries
        attempts == IF ready THEN k + 1 ELSE max_retries
    IN  Ret(s, IF ready THEN RoleArn(Account, role_name) ELSE None,
            cs \o [j \in 1..attempts |-> "get_role"])

role_custom(s, role_name, F, k, cs) ==
    LET c == attach_custom_policy(s, CustomPolicyName(role_name),
                                  "S3VectorsFullAccess", "role", role_name, F)
    IN  role_verify(c.s, role_name, k, cs \o c.calls)

role_attach_s3(s, role_name, F, k, cs) ==
    LET r == attach_principal_policy(s, "role", role_name, AmazonS3FullAccess,
                                     "role.attach:AmazonS3FullAccess" \in F)
        cs2 == Append(cs, "attach_role_policy")
    IN  IF r.err = "OK" THEN role_custom(r.s, role_name, F, k, cs2)
        ELSE Ret(r.s, None, cs2)

role_attach_bedrock(s, role_name, F, k, cs) ==
    LET r == attach_principal_policy(s, "role", role_name, AmazonBedrockFullAccess,
                                     "role.attach:AmazonBedrockFullAccess" \in F)
        cs2 == Append(cs, "attach_role_policy")
    IN  IF r.err = "OK" THEN role_attach_s3(r.s, role_name, F, k, cs2)
        ELSE Ret(r.s, None, cs2)

role_create(s, role_name, F, k, cs) ==
    LET r == iam_create_role(s, role_name, "role.create_role" \in F)
        cs2 == Append(cs, "create_role")
    IN  IF r.err = "OK" THEN role_attach_bedrock(r.s, role_name, F, k, cs2)
        ELSE Ret(r.s, None, cs2)

create_knowledge_base_role(s, role_name, F, k) ==
    IF "role.get_caller_identity" \in F THEN Ret(s, None, <<"get_caller_identity">>)
    ELSE LET cs == <<"get_caller_identity", "get_role">>
             g == get_principal(s, "role", role_name, "role.get_role" \in F)
         IN  IF g = "OK" THEN role_verify(s, role_name, k, cs)
             ELSE IF g = "NoSuchEntity" THEN role_create(s, role_name, F, k, cs)
             ELSE Ret(s, None, cs)

(***************************************************************************)
(* Bedrock Agent service: the knowledge bases in creation order.  Names    *)
(* are unique; a new knowledge base starts in CREATING.                    *)
(***************************************************************************)
KbNames == {"bedrock-knowledge-base", "other-kb"}
KbId(n) == <<"kb", n>>
default_max_wait_time == 60

bedrock_create_knowledge_base(s, name, roleArn, indexArn, fault) ==
    IF fault # "none" THEN [s |-> s, err |-> fault, id |-> None]
    ELSE IF \E k \in DOMAIN s.kbs : s.kbs[k].name = name
         THEN [s |-> s, err |-> "ConflictException", id |-> None]
    ELSE [s |-> [s EXCEPT !.kbs = Append(@,
                   [knowledgeBaseId |-> KbId(Len(s.kbs) + 1), name |-> name,
                    status |-> "CREATING", roleArn |-> roleArn,
                    indexArn |-> indexArn])],
          err |-> "OK", id |-> KbId(Len(s.kbs) + 1)]

list_knowledge_bases(s, fault) ==
    IF fault THEN [knowledgeBaseSummaries |-> <<>>, err |-> "Other"]
    ELSE [knowledgeBaseSummaries |-> s.kbs, err |-> "OK"]

get_knowledge_base(s, knowledge_base_id, fault) ==
    IF fault \/ ~\E k \in DOMAIN s.kbs : s.kbs[k].knowledgeBaseId = knowledge_base_id
    THEN [status |-> "", err |-> "Other"]
    ELSE [status |-> (CHOOSE kb \in {s.kbs[k] : k \in DOMAIN s.kbs} :
                        kb.knowledgeBaseId = knowledge_base_id).status,
          err |-> "OK"]

(***************************************************************************)
(* create_knowledge_base: on a conflict answer look the knowledge base up  *)
(* by name and reuse it; every exception ends in None.                     *)
(***************************************************************************)
KbSites == {"kb.create:Other", "kb.create:ConflictException",
            "kb.list_knowledge_bases"}

create_knowledge_base_lookup(s, kb_name, F, cs) ==
    LET l == list_knowledge_bases(s, "kb.list_knowledge_bases" \in F)
        cs2 == Append(cs, "list_knowledge_bases")
        existing == SelectSeq(l.knowledgeBaseSummaries, LAMBDA k : k.name = kb_name)
    IN  IF l.err # "OK" THEN Raise(s, cs2)
        ELSE IF existing # <<>> THEN Ret(s, existing[1].knowledgeBaseId, cs2)
        ELSE Raise(s, cs2)

\* Variant whose handler never looks the existing knowledge base up.
create_knowledge_base_try_no_lookup(s, vector_index_arn, kb_name, kb_role_arn, F) ==
    LET fault == IF "kb.create:Other" \in F THEN "Other"
                 ELSE IF "kb.create:ConflictException" \in F THEN "ConflictException"
                 ELSE "none"
        r == bedrock_create_knowledge_base(s, kb_name, kb_role_arn, vector_index_arn, fault)
        cs == <<"create_knowledge_base">>
    IN  IF r.err = "OK" THEN Ret(r.s, r.id, cs) ELSE Raise(r.s, cs)

create_knowledge_base_try(s, vector_index_arn, kb_name, kb_role_arn, F) ==
    LET fault == IF "kb.create:Other" \in F THEN "Other"
                 ELSE IF "kb.create:ConflictException" \in F THEN "ConflictException"
                 ELSE "none"
        r == bedrock_create_knowledge_base(s, kb_name, kb_role_arn, vector_index_arn, fault)
        cs == <<"create_knowledge_base">>
    IN  IF r.err = "OK" THEN Ret(r.s, r.id, cs)
        ELSE IF r.err = "ConflictException"
             THEN create_knowledge_base_lookup(r.s, kb_name, F, cs)
        ELSE Raise(r.s, cs)

create_knowledge_base(s, vector_index_arn, kb_name, kb_role_arn, F) ==
    Catch(create_knowledge_base_try(s, vector_index_arn, kb_name, kb_role_arn, F), None)

(***************************************************************************)
(* wait_for_knowledge_base_ready, one iteration of its loop: polled is the *)
(* number of polls already made.  done tells whether the function returns. *)
(***************************************************************************)
WaitOut(done, ret, seen, exc) == [done |-> done, ret |-> ret, seen |-> seen, exc |-> exc]

\* Variant that polls max_wait_time times and takes FAILED for ready.
wait_iteration_try_loose(s, knowledge_base_id, polled, max_wait_time, fault) ==
    IF polled >= max_wait_time THEN WaitOut(TRUE, FALSE, "timeout", FALSE)
    ELSE LET g == get_knowledge_base(s, knowledge_base_id, fault)
         IN  IF g.err # "OK" THEN WaitOut(TRUE, FALSE, "raise", TRUE)
             ELSE IF g.status \in {"ACTIVE", "FAILED"} THEN WaitOut(TRUE, TRUE, g.status, FALSE)
             ELSE WaitOut(FALSE, FALSE, g.status, FALSE)

wait_iteration_try(s, knowledge_base_id, polled, max_wait_time, fault) ==
    IF polled >= max_wait_time \div 2 THEN WaitOut(TRUE, FALSE, "timeout", FALSE)
    ELSE LET g == get_knowledge_base(s, knowledge_base_id, fault)
         IN  IF g.err # "OK" THEN WaitOut(TRUE, FALSE, "raise", TRUE)
             ELSE IF g.status = "ACTIVE" THEN WaitOut(TRUE, TRUE, g.status, FALSE)
             ELSE IF g.status = "FAILED" THEN WaitOut(TRUE, FALSE, g.status, FALSE)
             ELSE WaitOut(FALSE, FALSE, g.status, FALSE)

wait_iteration(s, knowledge_base_id, polled, max_wait_time, fault) ==
    LET w == wait_iteration_try(s, knowledge_base_id, polled, max_wait_time, fault)
    IN  IF w.exc THEN WaitOut(TRUE, FALSE, w.seen, FALSE) ELSE w

(***************************************************************************)
(* vectorize_and_store_documents: one invoke_model per document (a         *)
(* document whose embedding fails is skipped), then one put_vectors.       *)
(***************************************************************************)
DocumentLists == {<<>>, <<"doc1">>, <<"doc1", "doc2">>}

EmbedSite(key) == "invoke_model:" \o key
VectorizeSites(documents) ==
    {EmbedSite(documents[j]) : j \in DOMAIN documents} \cup {"put_vectors"}

put_vectors(s, b, i, keys, fault) ==
    IF fault \/ b \notin s.buckets \/ i \notin s.indexes[b]
    THEN [s |-> s, err |-> "Other"]
    ELSE [s |-> [s EXCEPT !.vectors = @ \cup {<<b, i, keys[j]>> : j \in DOMAIN keys}],
          err |-> "OK"]

vectorize_and_store_documents_try(s, documents, b, i, F) ==
    LET vectors_to_insert == SelectSeq(documents, LAMBDA d : EmbedSite(d) \notin F)
        cs == [j \in DOMAIN documents |-> "invoke_model"]
        r == put_vectors(s, b, i, vectors_to_insert, "put_vectors" \in F)
    IN  IF documents = <<>> THEN Ret(s, FALSE, <<>>)
        ELSE IF vectors_to_insert = <<>> THEN Ret(s, FALSE, cs)
        ELSE IF r.err = "OK" THEN Ret(r.s, TRUE, Append(cs, "put_vectors"))
        ELSE Raise(r.s, Append(cs, "put_vectors"))

vectorize_and_store_documents(s, documents, b, i, F) ==
    Catch(vectorize_and_store_documents_try(s, documents, b, i, F), FALSE)

(***************************************************************************)
(* setup_complete_knowledge_base, step 1: when the documents folder is     *)
(* missing or empty the sample archive is downloaded and extracted, then   *)
(* the folder is loaded.  folder is what the folder holds at the start,    *)
(* extracted what it holds after the extraction.                           *)
(***************************************************************************)
load_documents_try(folder, extracted, fault) ==
    IF folder # <<>> THEN Ret(folder, folder, <<>>)
    ELSE IF fault THEN Raise(folder, <<"urlopen">>)
    ELSE Ret(extracted, extracted, <<"urlopen">>)

(***************************************************************************)
(* The step that follows a successful step of                              *)
(* setup_complete_knowledge_base.                                          *)
(***************************************************************************)
\* Variant that creates the knowledge base before storing the documents.
CompleteNext_kb_before_vectors(step) ==
    CASE step = "c_step1" -> "c_step2"
      [] step = "c_step2" -> "c_step3"
      [] step = "c_step3" -> "c_step5"
      [] step = "c_step5" -> "c_step4"
      [] step = "c_step4" -> "c_step6"
      [] step = "c_step6" -> "c_return"

CompleteNext(step) ==
    CASE step = "c_step1" -> "c_step2"
      [] step = "c_step2" -> "c_step3"
      [] step = "c_step3" -> "c_step4"
      [] step = "c_step4" -> "c_step5"
      [] step = "c_step5" -> "c_step6"
      [] step = "c_step6" -> "c_return"

(***************************************************************************)
(* Bedrock control plane: the guardrails of the account in creation order. *)
(* Names are unique; a summary of list_guardrails carries id, arn, name    *)
(* and version, the answer of create_guardrail carries guardrailId,        *)
(* guardrailArn and version.                                               *)
(***************************************************************************)
GuardrailNames == {"aws-assistant-guardrail", "other-guardrail"}
GuardrailId(n) == <<"guardrail", n>>
GuardrailArn(n) == <<"arn:aws:bedrock", "guardrail", n>>

\* dict.get(key, default) and the `or` of two values.
DictGet(d, key, default) == IF key \in DOMAIN d THEN d[key] ELSE default
PyOr(a, b) == IF a # None THEN a ELSE b

bedrock_create_guardrail(s, name, fault) ==
    IF fault # "none" THEN [s |-> s, err |-> fault, response |-> None]
    ELSE IF \E k \in DOMAIN s.guardrails : s.guardrails[k].name = name
         THEN [s |-> s, err |-> "ConflictException", response |-> None]
    ELSE LET n == Len(s.guardrails) + 1
         IN  [s |-> [s EXCEPT !.guardrails = Append(@,
                       [id |-> GuardrailId(n), arn |-> GuardrailArn(n),
                        name |-> name, version |-> "DRAFT"])],
              err |-> "OK",
              response |-> [guardrailId |-> GuardrailId(n),
                            guardrailArn |-> GuardrailArn(n),
                            version |-> "DRAFT"]]

list_guardrails(s, fault) ==
    IF fault THEN [guardrails |-> <<>>, err |-> "Other"]
    ELSE [guardrails |-> s.guardrails, err |-> "OK"]

(***************************************************************************)
(* create_guardrail: the answer of the create request when it carries an   *)
(* id and an ARN; on a name conflict the guardrail of that name found in   *)
(* the listing; None in every other case.                                  *)
(***************************************************************************)
GuardrailSites == {"guardrail.create:Other", "guardrail.create:ConflictException",
                   "guardrail.list_guardrails"}
guardrail_name == "aws-assistant-guardrail"

create_guardrail_lookup(s, name, F, cs) ==
    LET l == list_guardrails(s, "guardrail.list_guardrails" \in F)
        cs2 == Append(cs, "list_guardrails")
        summaries == l.guardrails
        found == SelectSeq(summaries, LAMBDA g : DictGet(g, "name", None) = name)
    IN  IF l.err # "OK" THEN Ret(s, None, cs2)
        ELSE IF found # <<>>
        THEN LET existing == found[1]
                 guardrail_id == PyOr(DictGet(existing, "guardrailId", None),
                                      DictGet(existing, "id", None))
                 guardrail_arn == PyOr(DictGet(existing, "guardrailArn", None),
                                       DictGet(existing, "arn", None))
             IN  Ret(s, [guardrailId |-> guardrail_id,
                         guardrailArn |-> guardrail_arn,
                         version |-> DictGet(existing, "version", "DRAFT")], cs2)
        ELSE Ret(s, None, cs2)

\* Variant whose handler never looks the existing guardrail up.
create_guardrail_no_lookup(s, F) ==
    LET fault == IF "guardrail.create:Other" \in F THEN "Other"
                 ELSE IF "guardrail.create:ConflictException" \in F
                      THEN "ConflictException"
                 ELSE "none"
        r == bedrock_create_guardrail(s, guardrail_name, fault)
        cs == <<"create_guardrail">>
    IN  IF r.err = "OK"
        THEN IF "guardrailId" \in DOMAIN r.response /\ "guardrailArn" \in DOMAIN r.response
             THEN Ret(r.s, r.response, cs)
             ELSE Ret(r.s, None, cs)
        ELSE Ret(r.s, None, cs)

create_guardrail(s, F) ==
    LET fault == IF "guardrail.create:Other" \in F THEN "Other"
                 ELSE IF "guardrail.create:ConflictException" \in F
                      THEN "ConflictException"
                 ELSE "none"
        r == bedrock_create_guardrail(s, guardrail_name, fault)
        cs == <<"create_guardrail">>
    IN  IF r.err = "OK"
        THEN IF "guardrailId" \in DOMAIN r.response /\ "guardrailArn" \in DOMAIN r.response
             THEN Ret(r.s, r.response, cs)
             ELSE Ret(r.s, None, cs)
        ELSE IF r.err = "ConflictException"
        THEN create_guardrail_lookup(r.s, guardrail_name, F, cs)
        ELSE Ret(r.s, None, cs)

(***************************************************************************)
(* Bedrock model access: the availability of the model as the service      *)
(* reports it, the agreement offers of the model, and the requests the     *)
(* account has made (agreements created, use-case forms put, entitlement   *)
(* requests posted).                                                       *)
(***************************************************************************)
AvailabilityValues == {"AVAILABLE", "NOT_AVAILABLE"}
AuthorizationValues == {"AUTHORIZED", "NOT_AUTHORIZED"}
\* A Python string is a one-element tuple, so that it compares with None.
Str(x) == <<x>>
UseCaseJsons == {None, Str(""), Str("{\"companyName\":\"ACME\"}")}
ErrorKinds == {"none", "ClientError", "Other"}

get_availability(s, fault) ==
    IF fault # "none" THEN [err |-> fault, av |-> None]
    ELSE [err |-> "OK", av |-> s.availability]

explain_state(av) ==
    [agreement |-> DictGet(DictGet(av, "agreementAvailability", <<>>), "status", None),
     auth |-> DictGet(av, "authorizationStatus", None),
     entitlement |-> DictGet(av, "entitlementAvailability", None),
     region |-> DictGet(av, "regionAvailability", None)]

accept_public_offer(s, f_list, f_create) ==
    LET list == <<"list_foundation_model_agreement_offers">>
        both == Append(list, "create_foundation_model_agreement")
    IN  IF f_list # "none"
        THEN [s |-> s, err |-> f_list, ok |-> FALSE, msg |-> "", calls |-> list]
        ELSE IF s.offers = <<>>
        THEN [s |-> s, err |-> "OK", ok |-> FALSE, msg |-> "no_public_offers",
              calls |-> list]
        ELSE IF f_create # "none"
        THEN [s |-> s, err |-> f_create, ok |-> FALSE, msg |-> "", calls |-> both]
        ELSE [s |-> [s EXCEPT !.agreements = Append(@, s.offers[1])],
              err |-> "OK", ok |-> TRUE, msg |-> "offer_accepted", calls |-> both]

submit_use_case_us_east_1(s, payload_json_str, fault) ==
    IF payload_json_str = None \/ payload_json_str = Str("")
    THEN [s |-> s, err |-> "OK", ret |-> "skipped", calls |-> <<>>]
    ELSE IF fault # "none"
    THEN [s |-> s, err |-> fault, ret |-> None,
          calls |-> <<"put_use_case_for_model_access">>]
    ELSE [s |-> [s EXCEPT !.use_cases = Append(@, payload_json_str)],
          err |-> "OK", ret |-> "submitted",
          calls |-> <<"put_use_case_for_model_access">>]

set_model_entitlement(s, fault) ==
    IF fault # "none"
    THEN [s |-> s, err |-> fault, calls |-> <<"POST foundation-model-entitlement">>]
    ELSE [s |-> [s EXCEPT !.entitlement_posts = @ + 1], err |-> "OK",
          calls |-> <<"POST foundation-model-entitlement">>]

\* The test of wait_until_ready on the state it polled last.
ready(state) ==
    /\ state.agreement = "AVAILABLE"
    /\ state.auth = "AUTHORIZED"
    /\ state.entitlement = "AVAILABLE"
    /\ state.region = "AVAILABLE"

(***************************************************************************)
(* What enable_model does with the state read at start: give up on a model *)
(* the region does not offer, accept an offer when there is no agreement,  *)
(* else go on to the use case.                                             *)
(***************************************************************************)
\* Variant that accepts an offer whatever the agreement status is.
enable_after_start_always_accept(state) ==
    IF state.region = "NOT_AVAILABLE" THEN "blocked_region"
    ELSE "e_offer"

enable_after_start(state) ==
    IF state.region = "NOT_AVAILABLE" THEN "blocked_region"
    ELSE IF state.agreement # "AVAILABLE" THEN "e_offer"
    ELSE "e_usecase"

(***************************************************************************)
(* Initial states.                                                         *)
(***************************************************************************)
S3States == {s \in [buckets : SUBSET BucketNames,
                    indexes : [BucketNames -> SUBSET IndexNames],
                    vectors : {{}},
                    order : IndexOrders] :
               \A b \in BucketNames : b \notin s.buckets => s.indexes[b] = {}}

NoCall == [fn |-> "none", args |-> <<>>, F |-> {}, ret |-> None, exc |-> FALSE,
           pre |-> <<>>]

Idle == /\ pc = "idle"
        /\ run = <<>>
        /\ calls = <<>>
        /\ last = NoCall
        /\ prev = NoCall
        /\ ncalls = 0

InitS3 == /\ s3v \in S3States
          /\ iam = <<>>
          /\ bedrock = <<>>
          /\ Idle

(***************************************************************************)
(* A caller invokes setup_s3_vectors.                                      *)
(***************************************************************************)
CallSetupS3Vectors ==
    /\ pc = "idle"
    /\ ncalls < MaxCalls
    /\ \E b \in BucketNames, i \in IndexNames, F \in FaultSets(S3Sites) :
         LET r == setup_s3_vectors(s3v, b, i, F)
         IN  /\ s3v' = r.s
             /\ calls' = r.calls
             /\ prev' = last
             /\ last' = [fn |-> "setup_s3_vectors", args |-> <<b, i>>, F |-> F,
                         ret |-> r.ret, exc |-> r.exc, pre |-> s3v]
    /\ ncalls' = ncalls + 1
    /\ UNCHANGED <<iam, bedrock, pc, run>>

NextS3 == CallSetupS3Vectors

SpecS3 == InitS3 /\ [][NextS3]_vars

(***************************************************************************)
(* Callers of the IAM helpers, one call in a behaviour.  The account       *)
(* starts in any state in which every attachment joins an existing         *)
(* principal and an existing policy.                                       *)
(***************************************************************************)
AttachableArns ==
    {AmazonBedrockFullAccess, AmazonS3FullAccess}
    \cup {PolicyArn(Account, pn) : pn \in PolicyNames}

StoredPolicies ==
    {[name |-> pn, arn |-> PolicyArn(Account, pn), document |-> JsonDumps(d)] :
       pn \in PolicyNames, d \in Documents}

IAMStates ==
    {s \in [roles : SUBSET RoleNames, users : SUBSET UserNames,
            policies : {ps \in SUBSET StoredPolicies :
                          \A p, q \in ps : p.name = q.name => p = q},
            attached : SUBSET (({"role"} \X RoleNames \X AttachableArns)
                               \cup ({"user"} \X UserNames \X AttachableArns))] :
       \A a \in s.attached : PrincipalExists(s, a[1], a[2]) /\ PolicyExists(s, a[3])}

InitIAM == /\ iam \in IAMStates
           /\ s3v = <<>>
           /\ bedrock = <<>>
           /\ Idle

Returned(fn, args, F, r, pre) ==
    /\ calls' = r.calls
    /\ last' = [fn |-> fn, args |-> args, F |-> F, ret |-> r.ret, exc |-> r.exc,
                pre |-> pre]

CallAttachPolicy ==
    /\ pc = "idle"
    /\ \E t \in AttachTypes, n \in UserNames \cup RoleNames,
          arn \in {AmazonBedrockFullAccess} \cup {PolicyArn(Account, pn) : pn \in PolicyNames},
          F \in FaultSets(AttachSites) :
         LET r == attach_policy(iam, t, n, arn, F)
         IN  /\ iam' = r.s
             /\ Returned("attach_policy", <<t, n, arn>>, F, r, iam)
    /\ pc' = "done"
    /\ UNCHANGED <<s3v, bedrock, run, prev, ncalls>>

CallCreatePolicy ==
    /\ pc = "idle"
    /\ \E pn \in PolicyNames, d \in Documents, F \in FaultSets(PolicySites) :
         LET r == create_policy(iam, pn, d, F)
         IN  /\ iam' = r.s
             /\ Returned("create_policy", <<pn, d>>, F, r, iam)
    /\ pc' = "done"
    /\ UNCHANGED <<s3v, bedrock, run, prev, ncalls>>

CallCreateKnowledgeBaseRole ==
    /\ pc = "idle"
    /\ \E rn \in RoleNames, F \in FaultSets(RoleSites), k \in VerifyFailures :
         LET r == create_knowledge_base_role(iam, rn, F, k)
         IN  /\ iam' = r.s
             /\ Returned("create_knowledge_base_role", <<rn, k>>, F, r, iam)
    /\ pc' = "done"
    /\ UNCHANGED <<s3v, bedrock, run, prev, ncalls>>

NextIAM == \/ CallAttachPolicy
           \/ CallCreatePolicy
           \/ CallCreateKnowledgeBaseRole

SpecIAM == InitIAM /\ [][NextIAM]_vars

(***************************************************************************)
(* Callers of create_knowledge_base and wait_for_knowledge_base_ready, and *)
(* the service finishing the creation of a knowledge base.                 *)
(***************************************************************************)
MaxWait == 5

InitKB == /\ bedrock = [kbs |-> <<>>]
          /\ s3v = <<>>
          /\ iam = <<>>
          /\ Idle

KbProgress ==
    /\ \E k \in DOMAIN bedrock.kbs, st \in {"ACTIVE", "FAILED"} :
         /\ bedrock.kbs[k].status = "CREATING"
         /\ bedrock' = [bedrock EXCEPT !.kbs[k].status = st]
    /\ UNCHANGED <<s3v, iam, pc, run, calls, last, prev, ncalls>>

CallCreateKnowledgeBase ==
    /\ pc = "idle"
    /\ \E n \in KbNames, F \in FaultSets(KbSites) :
         LET arn == IndexArn("bedrock-vector-bucket", "bedrock-vector-index")
             role == RoleArn(Account, "kb-service-role")
             r == create_knowledge_base(bedrock, arn, n, role, F)
         IN  /\ bedrock' = r.s
             /\ Returned("create_knowledge_base", <<arn, n, role>>, F, r, bedrock)
    /\ UNCHANGED <<s3v, iam, pc, run, prev, ncalls>>

CallWaitForKnowledgeBaseReady ==
    /\ pc = "idle"
    /\ \E n \in 1..(Cardinality(KbNames) + 1), w \in 0..MaxWait :
         run' = [fn |-> "wait_for_knowledge_base_ready",
                 knowledge_base_id |-> KbId(n), max_wait_time |-> w,
                 polls |-> <<>>]
    /\ pc' = "wait"
    /\ calls' = <<>>
    /\ last' = NoCall
    /\ UNCHANGED <<s3v, iam, bedrock, prev, ncalls>>

WaitIteration ==
    /\ pc = "wait"
    /\ \E fault \in BOOLEAN :
         LET w == wait_iteration(bedrock, run.knowledge_base_id, Len(run.polls),
                                 run.max_wait_time, fault)
             polls == IF w.seen = "timeout" THEN run.polls ELSE Append(run.polls, w.seen)
         IN  /\ calls' = IF w.seen = "timeout" THEN calls
                         ELSE Append(calls, "get_knowledge_base")
             /\ IF w.done
                THEN /\ pc' = "idle"
                     /\ run' = <<>>
                     /\ last' = [fn |-> run.fn,
                                 args |-> <<run.knowledge_base_id, run.max_wait_time>>,
                                 F |-> {}, ret |-> w.ret, exc |-> w.exc,
                                 pre |-> <<>>, polls |-> polls]
                ELSE /\ pc' = "wait"
                     /\ run' = [run EXCEPT !.polls = polls]
                     /\ last' = last
    /\ UNCHANGED <<s3v, iam, bedrock, prev, ncalls>>

NextKB == \/ CallCreateKnowledgeBase
          \/ CallWaitForKnowledgeBaseReady
          \/ WaitIteration
          \/ KbProgress

SpecKB == InitKB /\ [][NextKB]_vars

(***************************************************************************)
(* setup_complete_knowledge_base, one action per step.  run holds the      *)
(* locals of the run; steps records the outcome of each step taken.        *)
(***************************************************************************)
DefaultBucket == "bedrock-vector-bucket"
DefaultIndex == "bedrock-vector-index"
DefaultKb == "bedrock-knowledge-base"
DefaultRole == "kb-service-role"

IAMProvisioned ==
    [roles |-> {DefaultRole}, users |-> {},
     policies |-> {[name |-> CustomPolicyName(DefaultRole),
                    arn |-> PolicyArn(Account, CustomPolicyName(DefaultRole)),
                    document |-> JsonDumps("S3VectorsFullAccess")]},
     attached |-> {<<"role", DefaultRole, AmazonBedrockFullAccess>>,
                   <<"role", DefaultRole, AmazonS3FullAccess>>,
                   <<"role", DefaultRole, PolicyArn(Account, CustomPolicyName(DefaultRole))>>}]

ExistingKb(st) ==
    [kbs |-> <<[knowledgeBaseId |-> KbId(1), name |-> DefaultKb, status |-> st,
                roleArn |-> RoleArn(Account, DefaultRole),
                indexArn |-> IndexArn(DefaultBucket, DefaultIndex)]>>]

Init == /\ s3v \in {s \in S3States : "other-bucket" \notin s.buckets}
        /\ iam \in {[roles |-> {}, users |-> {}, policies |-> {}, attached |-> {}],
                    [roles |-> {DefaultRole}, users |-> {}, policies |-> {},
                     attached |-> {}],
                    IAMProvisioned}
        /\ bedrock \in {[kbs |-> <<>>]} \cup {ExistingKb(st) : st \in {"CREATING", "ACTIVE"}}
        /\ Idle

Services == [s3v |-> s3v, iam |-> iam, bedrock |-> bedrock]

CompleteReturn(r, ret, exc) ==
    /\ pc' = "done"
    /\ run' = <<>>
    /\ last' = [fn |-> r.fn, args |-> r.args, F |-> {}, ret |-> ret, exc |-> exc,
                pre |-> r.pre, steps |-> r.steps, polls |-> r.polls,
                vector_index_arn |-> r.vector_index_arn,
                knowledge_base_id |-> r.knowledge_base_id]

\* Variant that goes on to the next step after a failed one.
CompleteAfter_no_return(r, ok, exc) ==
    LET r2 == [r EXCEPT !.steps = Append(@, ok)]
    IN  IF exc THEN CompleteReturn(r2, None, exc)
        ELSE IF CompleteNext(pc) = "c_return"
             THEN CompleteReturn(r2, IF ok THEN <<r2.knowledge_base_id, r2.vector_index_arn>>
                                     ELSE None, FALSE)
        ELSE /\ pc' = CompleteNext(pc)
             /\ run' = r2
             /\ last' = last

\* The "if not <result>: return None" that follows every step.
CompleteAfter(r, ok, exc) ==
    LET r2 == [r EXCEPT !.steps = Append(@, ok)]
    IN  IF exc \/ ~ok THEN CompleteReturn(r2, None, exc)
        ELSE IF CompleteNext(pc) = "c_return"
             THEN CompleteReturn(r2, <<r2.knowledge_base_id, r2.vector_index_arn>>, FALSE)
        ELSE /\ pc' = CompleteNext(pc)
             /\ run' = r2
             /\ last' = last

StartComplete ==
    /\ pc = "idle"
    /\ pc' = "c_step1"
    /\ run' = [fn |-> "setup_complete_knowledge_base",
               args |-> <<DefaultBucket, DefaultIndex, DefaultKb>>,
               pre |-> Services, steps |-> <<>>, polls |-> <<>>,
               documents |-> <<>>, vector_index_arn |-> None,
               kb_role_arn |-> None, knowledge_base_id |-> None]
    /\ calls' = <<>>
    /\ last' = NoCall
    /\ UNCHANGED <<s3v, iam, bedrock, prev, ncalls>>

CompleteStep1 ==
    /\ pc = "c_step1"
    /\ \E folder \in DocumentLists, extracted \in DocumentLists, fault \in BOOLEAN :
         LET r == Catch(load_documents_try(folder, extracted, fault), <<>>)
         IN  /\ calls' = calls \o r.calls
             /\ CompleteAfter([run EXCEPT !.documents = r.ret], r.ret # <<>>, r.exc)
    /\ UNCHANGED <<s3v, iam, bedrock, prev, ncalls>>

CompleteStep2 ==
    /\ pc = "c_step2"
    /\ \E F \in FaultSets(S3Sites) :
         LET r == setup_s3_vectors(s3v, run.args[1], run.args[2], F)
         IN  /\ s3v' = r.s
             /\ calls' = calls \o r.calls
             /\ CompleteAfter([run EXCEPT !.vector_index_arn = r.ret], r.ret # None, r.exc)
    /\ UNCHANGED <<iam, bedrock, prev, ncalls>>

CompleteStep3 ==
    /\ pc = "c_step3"
    /\ \E F \in FaultSets(RoleSites), k \in VerifyFailures :
         LET r == create_knowledge_base_role(iam, DefaultRole, F, k)
         IN  /\ iam' = r.s
             /\ calls' = calls \o r.calls
             /\ CompleteAfter([run EXCEPT !.kb_role_arn = r.ret], r.ret # None, r.exc)
    /\ UNCHANGED <<s3v, bedrock, prev, ncalls>>

CompleteStep4 ==
    /\ pc = "c_step4"
    /\ \E F \in FaultSets(VectorizeSites(run.documents)) :
         LET r == vectorize_and_store_documents(s3v, run.documents, run.args[1],
                                                run.args[2], F)
         IN  /\ s3v' = r.s
             /\ calls' = calls \o r.calls
             /\ CompleteAfter(run, r.ret, r.exc)
    /\ UNCHANGED <<iam, bedrock, prev, ncalls>>

\* Variant that removes the stored vectors when the creation fails.
CompleteStep5_rollback ==
    /\ pc = "c_step5"
    /\ \E F \in FaultSets(KbSites) :
         LET r == create_knowledge_base(bedrock, run.vector_index_arn, run.args[3],
                                        run.kb_role_arn, F)
         IN  /\ bedrock' = r.s
             /\ calls' = calls \o r.calls
             /\ s3v' = IF r.ret = None THEN [s3v EXCEPT !.vectors = {}] ELSE s3v
             /\ CompleteAfter([run EXCEPT !.knowledge_base_id = r.ret], r.ret # None, r.exc)
    /\ UNCHANGED <<iam, prev, ncalls>>

CompleteStep5 ==
    /\ pc = "c_step5"
    /\ \E F \in FaultSets(KbSites) :
         LET r == create_knowledge_base(bedrock, run.vector_index_arn, run.args[3],
                                        run.kb_role_arn, F)
         IN  /\ bedrock' = r.s
             /\ calls' = calls \o r.calls
             /\ CompleteAfter([run EXCEPT !.knowledge_base_id = r.ret], r.ret # None, r.exc)
    /\ UNCHANGED <<s3v, iam, prev, ncalls>>

CompleteStep6 ==
    /\ pc = "c_step6"
    /\ \E fault \in BOOLEAN :
         LET w == wait_iteration(bedrock, run.knowledge_base_id, Len(run.polls),
                                 default_max_wait_time, fault)
             r == IF w.seen = "timeout" THEN run
                  ELSE [run EXCEPT !.polls = Append(@, w.seen)]
         IN  /\ calls' = IF w.seen = "timeout" THEN calls
                         ELSE Append(calls, "get_knowledge_base")
             /\ IF w.done THEN CompleteAfter(r, w.ret, w.exc)
                ELSE /\ pc' = pc
                     /\ run' = r
                     /\ last' = last
    /\ UNCHANGED <<s3v, iam, bedrock, prev, ncalls>>

(***************************************************************************)
(* setup_bedrock_knowledge_base of kb-test.py, one action per API call.    *)
(* Every error is printed and re-raised.  The two waiting loops of the     *)
(* function have no limit; the model lets each wait MaxPolls times.        *)
(***************************************************************************)
MaxPolls == 2
SampleDocuments == <<"doc1", "doc2", "doc3">>

KTReturn(r, ret, exc) ==
    /\ pc' = "done"
    /\ run' = <<>>
    /\ last' = [fn |-> r.fn, args |-> r.args, F |-> {}, ret |-> ret, exc |-> exc,
                pre |-> r.pre]

KTGoto(next, r) ==
    /\ pc' = next
    /\ run' = r
    /\ last' = last

KTStart ==
    /\ pc = "idle"
    /\ \E b \in BucketNames, i \in IndexNames, n \in KbNames :
         run' = [fn |-> "setup_bedrock_knowledge_base", args |-> <<b, i, n>>,
                 pre |-> Services, index_arn |-> None, knowledge_base_id |-> None,
                 waits |-> 0]
    /\ pc' = "k_bucket"
    /\ calls' = <<>>
    /\ last' = NoCall
    /\ UNCHANGED <<s3v, iam, bedrock, prev, ncalls>>

KTCreateBucket ==
    /\ pc = "k_bucket"
    /\ \E fault \in BOOLEAN :
         LET r == create_vector_bucket(s3v, run.args[1], fault)
         IN  /\ s3v' = r.s
             /\ IF r.err = "OK" THEN KTGoto("k_index", run) ELSE KTReturn(run, None, TRUE)
    /\ calls' = Append(calls, "create_vector_bucket")
    /\ UNCHANGED <<iam, bedrock, prev, ncalls>>

KTCreateIndex ==
    /\ pc = "k_index"
    /\ \E fault \in BOOLEAN :
         LET r == create_index(s3v, run.args[1], run.args[2], fault)
         IN  /\ s3v' = r.s
             /\ IF r.err = "OK" THEN KTGoto("k_list", run) ELSE KTReturn(run, None, TRUE)
    /\ calls' = Append(calls, "create_index")
    /\ UNCHANGED <<iam, bedrock, prev, ncalls>>

KTListIndexes ==
    /\ pc = "k_list"
    /\ \E fault \in BOOLEAN, empty \in BOOLEAN :
         LET r == list_indexes(s3v, run.args[1], fault, empty)
         IN  IF r.err # "OK" THEN KTReturn(run, None, TRUE)
             ELSE IF r.indexes = <<>>
                  THEN /\ run.waits < MaxPolls
                       /\ KTGoto("k_list", [run EXCEPT !.waits = @ + 1])
             ELSE KTGoto("k_embed", [run EXCEPT !.index_arn = r.indexes[1].indexArn,
                                                !.waits = 0])
    /\ calls' = Append(calls, "list_indexes")
    /\ UNCHANGED <<s3v, iam, bedrock, prev, ncalls>>

\* failing is the position of the document whose invoke_model raises, 0 for none.
KTEmbed ==
    /\ pc = "k_embed"
    /\ \E failing \in 0..Len(SampleDocuments) :
         /\ calls' = calls \o [j \in 1..(IF failing = 0 THEN Len(SampleDocuments)
                                         ELSE failing) |-> "invoke_model"]
         /\ IF failing = 0 THEN KTGoto("k_put", run) ELSE KTReturn(run, None, TRUE)
    /\ UNCHANGED <<s3v, iam, bedrock, prev, ncalls>>

KTPutVectors ==
    /\ pc = "k_put"
    /\ \E fault \in BOOLEAN :
         LET r == put_vectors(s3v, run.args[1], run.args[2], SampleDocuments, fault)
         IN  /\ s3v' = r.s
             /\ IF r.err = "OK" THEN KTGoto("k_create", run) ELSE KTReturn(run, None, TRUE)
    /\ calls' = Append(calls, "put_vectors")
    /\ UNCHANGED <<iam, bedrock, prev, ncalls>>

KTCreateKnowledgeBase ==
    /\ pc = "k_create"
    /\ \E fault \in {"none", "Other"} :
         LET r == bedrock_create_knowledge_base(bedrock, run.args[3],
                     RoleArn(Account, DefaultRole), run.index_arn, fault)
         IN  /\ bedrock' = r.s
             /\ IF r.err = "OK" THEN KTGoto("k_poll", [run EXCEPT !.knowledge_base_id = r.id])
                ELSE KTReturn(run, None, TRUE)
    /\ calls' = Append(calls, "create_knowledge_base")
    /\ UNCHANGED <<s3v, iam, prev, ncalls>>

KTPoll ==
    /\ pc = "k_poll"
    /\ \E fault \in BOOLEAN :
         LET g == get_knowledge_base(bedrock, run.knowledge_base_id, fault)
         IN  IF g.err # "OK" \/ g.status = "FAILED" THEN KTReturn(run, None, TRUE)
             ELSE IF g.status = "ACTIVE" THEN KTGoto("k_search", run)
             ELSE /\ run.waits < MaxPolls
                  /\ KTGoto("k_poll", [run EXCEPT !.waits = @ + 1])
    /\ calls' = Append(calls, "get_knowledge_base")
    /\ UNCHANGED <<s3v, iam, bedrock, prev, ncalls>>

KTSearch ==
    /\ pc = "k_search"
    /\ \E fault \in {"none", "invoke_model", "query_vectors"} :
         /\ calls' = calls \o (IF fault = "invoke_model" THEN <<"invoke_model">>
                               ELSE <<"invoke_model", "query_vectors">>)
         /\ IF fault = "none" THEN KTGoto("k_query", run) ELSE KTReturn(run, None, TRUE)
    /\ UNCHANGED <<s3v, iam, bedrock, prev, ncalls>>

KTQuery ==
    /\ pc = "k_query"
    /\ calls' = calls \o <<"retrieve_and_generate", "retrieve_and_generate",
                           "retrieve_and_generate">>
    /\ KTReturn(run, <<run.knowledge_base_id, run.args[1], run.args[2], run.index_arn>>,
                FALSE)
    /\ UNCHANGED <<s3v, iam, bedrock, prev, ncalls>>

Next == \/ StartComplete
        \/ CompleteStep1
        \/ CompleteStep2
        \/ CompleteStep3
        \/ CompleteStep4
        \/ CompleteStep5
        \/ CompleteStep6
        \/ KTStart
        \/ KTCreateBucket
        \/ KTCreateIndex
        \/ KTListIndexes
        \/ KTEmbed
        \/ KTPutVectors
        \/ KTCreateKnowledgeBase
        \/ KTPoll
        \/ KTSearch
        \/ KTQuery
        \/ KbProgress

Spec == Init /\ [][Next]_vars

(***************************************************************************)
(* Guardrail creation: create_guardrail is called up to MaxCalls times on  *)
(* an account that holds any guardrails of the known names.                *)
(***************************************************************************)
GuardrailStates ==
    {[guardrails |-> [k \in DOMAIN ns |->
                        [id |-> GuardrailId(k), arn |-> GuardrailArn(k),
                         name |-> ns[k], version |-> "DRAFT"]]] :
       ns \in {<<>>} \cup {<<n>> : n \in GuardrailNames}
              \cup {p \in GuardrailNames \X GuardrailNames : p[1] # p[2]}}

InitGuardrail == /\ s3v = <<>>
                 /\ iam = <<>>
                 /\ bedrock \in GuardrailStates
                 /\ Idle

CallCreateGuardrail ==
    /\ pc = "idle"
    /\ ncalls < MaxCalls
    /\ \E F \in FaultSets(GuardrailSites) :
         LET r == create_guardrail(bedrock, F)
         IN  /\ bedrock' = r.s
             /\ Returned("create_guardrail", <<>>, F, r, bedrock)
    /\ prev' = last
    /\ ncalls' = ncalls + 1
    /\ UNCHANGED <<s3v, iam, pc, run>>

\* Another party of the account creates a guardrail of the other name.
OtherGuardrailCreated ==
    /\ pc = "idle"
    /\ bedrock' = bedrock_create_guardrail(bedrock, "other-guardrail", "none").s
    /\ bedrock' # bedrock
    /\ UNCHANGED <<s3v, iam, pc, run, calls, last, prev, ncalls>>

NextGuardrail == CallCreateGuardrail \/ OtherGuardrailCreated

SpecGuardrail == InitGuardrail /\ [][NextGuardrail]_vars

(***************************************************************************)
(* enable_model, one action per API call.  run holds the locals: the       *)
(* configured use-case JSON, steps, the state observed last, and as        *)
(* history the observations with their position in the call log, the       *)
(* failures met, and the position of the first readiness poll.  budget is  *)
(* the number of times the time test of wait_until_ready holds.            *)
(***************************************************************************)
ModelStates ==
    {[availability |-> [agreementAvailability |-> [status |-> a],
                        authorizationStatus |-> u,
                        entitlementAvailability |-> e,
                        regionAvailability |-> g],
      offers |-> o, agreements |-> <<>>, use_cases |-> <<>>,
      entitlement_posts |-> 0] :
       a \in AvailabilityValues, u \in AuthorizationValues,
       e \in AvailabilityValues, g \in AvailabilityValues,
       o \in {<<>>, <<"offer-token">>}}

InitEnable == /\ s3v = <<>>
              /\ iam = <<>>
              /\ bedrock \in ModelStates
              /\ Idle

\* The service processes the requests of the account in its own time.
ModelProgress ==
    /\ pc \notin {"idle", "done"}
    /\ \/ /\ bedrock.agreements # <<>>
          /\ bedrock' = [bedrock EXCEPT
                           !.availability.agreementAvailability.status = "AVAILABLE"]
       \/ /\ bedrock.use_cases # <<>>
          /\ bedrock' = [bedrock EXCEPT
                           !.availability.authorizationStatus = "AUTHORIZED"]
       \/ /\ bedrock.entitlement_posts > 0
          /\ bedrock' = [bedrock EXCEPT
                           !.availability.entitlementAvailability = "AVAILABLE"]
    /\ bedrock' # bedrock
    /\ UNCHANGED <<s3v, iam, pc, run, calls, last, prev, ncalls>>

EReturn(status, r) ==
    /\ pc' = "done"
    /\ run' = <<>>
    /\ last' = [fn |-> "enable_model", args |-> <<r.submit_use_case_json, r.budget>>,
                F |-> {}, ret |-> [status |-> status, steps |-> r.steps],
                exc |-> FALSE, pre |-> r.pre, run |-> r]

EGoto(next, r) ==
    /\ pc' = next
    /\ run' = r
    /\ last' = last

EObserved(r, state) ==
    [r EXCEPT !.state = state,
              !.observed = Append(@, [at |-> Len(calls) + 1, state |-> state])]

EFailed(r, what) == [r EXCEPT !.failed = Append(@, what)]

EStart ==
    /\ pc = "idle"
    /\ \E j \in UseCaseJsons, w \in 0..MaxPolls :
         run' = [submit_use_case_json |-> j, budget |-> w, pre |-> bedrock,
                 steps |-> <<>>, state |-> None, observed |-> <<>>,
                 failed |-> <<>>, wait_from |-> 0, iterations |-> 0]
    /\ pc' = "e_start"
    /\ calls' = <<>>
    /\ last' = NoCall
    /\ UNCHANGED <<s3v, iam, bedrock, prev, ncalls>>

EReadStart ==
    /\ pc = "e_start"
    /\ \E fault \in ErrorKinds :
         LET g == get_availability(bedrock, fault)
             state == explain_state(g.av)
             r == [EObserved(run, state) EXCEPT !.steps = Append(@, "start")]
             next == enable_after_start(state)
         IN  IF g.err # "OK" THEN EReturn("error", EFailed(run, "start"))
             ELSE IF next = "blocked_region" THEN EReturn("blocked_region", r)
             ELSE EGoto(next, r)
    /\ calls' = Append(calls, "get_foundation_model_availability")
    /\ UNCHANGED <<s3v, iam, bedrock, prev, ncalls>>

EAcceptOffer ==
    /\ pc = "e_offer"
    /\ \E f_list \in ErrorKinds, f_create \in ErrorKinds :
         LET a == accept_public_offer(bedrock, f_list, f_create)
         IN  /\ bedrock' = a.s
             /\ calls' = calls \o a.calls
             /\ IF a.err # "OK" THEN EReturn("error", EFailed(run, "agreement"))
                ELSE IF ~a.ok THEN EReturn("error", run)
                ELSE EGoto("e_post_agreement", [run EXCEPT !.steps = Append(@, a.msg)])
    /\ UNCHANGED <<s3v, iam, prev, ncalls>>

EPostAgreement ==
    /\ pc = "e_post_agreement"
    /\ \E fault \in ErrorKinds :
         LET g == get_availability(bedrock, fault)
             r == [EObserved(run, explain_state(g.av)) EXCEPT
                     !.steps = Append(@, "post-agreement")]
         IN  IF g.err # "OK" THEN EReturn("error", EFailed(run, "post-agreement"))
             ELSE EGoto("e_usecase", r)
    /\ calls' = Append(calls, "get_foundation_model_availability")
    /\ UNCHANGED <<s3v, iam, bedrock, prev, ncalls>>

\* Only a ClientError of the submission is caught here; any other exception
\* reaches the handlers of the whole run.
EUseCase ==
    /\ pc = "e_usecase"
    /\ IF run.submit_use_case_json = None
       THEN /\ EGoto("e_entitlement", run)
            /\ UNCHANGED <<bedrock, calls>>
       ELSE \E fault \in ErrorKinds :
              LET u == submit_use_case_us_east_1(bedrock, run.submit_use_case_json, fault)
                  r == [run EXCEPT !.steps = Append(@, "submitting_use_case_us_east_1")]
              IN  /\ bedrock' = u.s
                  /\ calls' = calls \o u.calls
                  /\ IF u.err = "OK"
                     THEN EGoto("e_post_usecase", [r EXCEPT !.steps = Append(@, u.ret)])
                     ELSE IF u.err = "ClientError"
                     THEN EGoto("e_post_usecase",
                                EFailed([r EXCEPT !.steps = Append(@, "use_case_error")],
                                        "use_case:ClientError"))
                     ELSE EReturn("error", EFailed(r, "use_case:Other"))
    /\ UNCHANGED <<s3v, iam, prev, ncalls>>

EPostUseCase ==
    /\ pc = "e_post_usecase"
    /\ \E fault \in ErrorKinds :
         LET g == get_availability(bedrock, fault)
             r == [EObserved(run, explain_state(g.av)) EXCEPT
                     !.steps = Append(@, "post-usecase")]
         IN  IF g.err # "OK" THEN EReturn("error", EFailed(run, "post-usecase"))
             ELSE EGoto("e_entitlement", r)
    /\ calls' = Append(calls, "get_foundation_model_availability")
    /\ UNCHANGED <<s3v, iam, bedrock, prev, ncalls>>

\* Every exception of the entitlement request is caught.
EEntitlement ==
    /\ pc = "e_entitlement"
    /\ IF run.state.entitlement # "AVAILABLE"
       THEN \E fault \in {"none", "HTTPError", "Other"} :
              LET e == set_model_entitlement(bedrock, fault)
              IN  /\ bedrock' = e.s
                  /\ calls' = calls \o e.calls
                  /\ IF e.err = "OK"
                     THEN EGoto("e_post_entitlement",
                                [run EXCEPT !.steps = Append(@, "entitlement_post")])
                     ELSE EGoto("e_wait",
                                EFailed([run EXCEPT !.steps = Append(@,
                                           IF e.err = "HTTPError"
                                           THEN "entitlement_http_error"
                                           ELSE "entitlement_error")],
                                        "entitlement:" \o e.err))
       ELSE /\ EGoto("e_wait", run)
            /\ UNCHANGED <<bedrock, calls>>
    /\ UNCHANGED <<s3v, iam, prev, ncalls>>

\* The read after the entitlement request is inside the same try.
EPostEntitlement ==
    /\ pc = "e_post_entitlement"
    /\ \E fault \in ErrorKinds :
         LET g == get_availability(bedrock, fault)
             r == [EObserved(run, explain_state(g.av)) EXCEPT
                     !.steps = Append(@, "post-entitlement")]
         IN  IF g.err # "OK"
             THEN EGoto("e_wait",
                        EFailed([run EXCEPT !.steps = Append(@, "entitlement_error")],
                                "entitlement:read"))
             ELSE EGoto("e_wait", r)
    /\ calls' = Append(calls, "get_foundation_model_availability")
    /\ UNCHANGED <<s3v, iam, bedrock, prev, ncalls>>

\* wait_until_ready: the poll before the loop.
EWaitFirst ==
    /\ pc = "e_wait"
    /\ \E fault \in ErrorKinds :
         LET g == get_availability(bedrock, fault)
             w == [run EXCEPT !.wait_from = Len(calls) + 1]
         IN  IF g.err # "OK" THEN EReturn("error", EFailed(w, "wait"))
             ELSE EGoto("e_loop", EObserved(w, explain_state(g.av)))
    /\ calls' = Append(calls, "get_foundation_model_availability")
    /\ UNCHANGED <<s3v, iam, bedrock, prev, ncalls>>

\* wait_until_ready: one turn of the loop.
EWaitLoop ==
    /\ pc = "e_loop"
    /\ IF run.iterations >= run.budget
       THEN /\ EReturn("timeout", run)
            /\ calls' = calls
       ELSE IF ready(run.state)
       THEN /\ EReturn("enabled", run)
            /\ calls' = calls
       ELSE /\ \E fault \in ErrorKinds :
                 LET g == get_availability(bedrock, fault)
                     r == [run EXCEPT !.iterations = @ + 1]
                 IN  IF g.err # "OK" THEN EReturn("error", EFailed(r, "wait"))
                     ELSE EGoto("e_loop", EObserved(r, explain_state(g.av)))
            /\ calls' = Append(calls, "get_foundation_model_availability")
    /\ UNCHANGED <<s3v, iam, bedrock, prev, ncalls>>

NextEnable == \/ EStart
              \/ EReadStart
              \/ EAcceptOffer
              \/ EPostAgreement
              \/ EUseCase
              \/ EPostUseCase
              \/ EEntitlement
              \/ EPostEntitlement
              \/ EWaitFirst
              \/ EWaitLoop
              \/ ModelProgress

SpecEnable == InitEnable /\ [][NextEnable]_vars

\* The knowledge bases of a state without their status, which the service
\* changes on its own.
KbEntries(s) == [k \in DOMAIN s.kbs |-> <<s.kbs[k].knowledgeBaseId, s.kbs[k].name>>]
NothingCreated == KbEntries(bedrock) = KbEntries(last.pre)

KbNamed(s, n) == {s.kbs[k] : k \in {j \in DOMAIN s.kbs : s.kbs[j].name = n}}

(***************************************************************************)
(* Positions of API calls in the log of a run.                             *)
(***************************************************************************)
Positions(names) == {j \in DOMAIN calls : calls[j] \in names}
Precedes(A, B) ==
    /\ Positions(A) # {}
    /\ Positions(B) # {}
    /\ \A j \in Positions(A), k \in Positions(B) : j < k
RoleStepCalls == {"get_caller_identity", "get_role", "create_role", "attach_role_policy",
                  "create_policy", "list_attached_role_policies"}
CompleteSucceeded ==
    pc = "done" /\ last.fn = "setup_complete_knowledge_base" /\ last.ret # None

(***************************************************************************)
(* C1 as stated: in a successful run of setup_complete_knowledge_base the  *)
(* steps complete in the order vector bucket, vector index, knowledge base *)
(* creation, IAM role creation, document ingestion (put_vectors).          *)
(***************************************************************************)
C1_OrderOriginal ==
    CompleteSucceeded =>
        /\ Precedes({"create_vector_bucket"}, {"create_index"})
        /\ Precedes({"create_index"}, {"create_knowledge_base"})
        /\ Precedes({"create_knowledge_base"}, RoleStepCalls)
        /\ Precedes(RoleStepCalls, {"put_vectors"})

(***************************************************************************)
(* C1 amended: in a successful run of setup_complete_knowledge_base the    *)
(* steps complete in the order vector bucket, vector index, IAM role       *)
(* creation, document ingestion (put_vectors), knowledge base creation;    *)
(* each of the four named calls is made once.                              *)
(***************************************************************************)
C1_Order ==
    CompleteSucceeded =>
        /\ Precedes({"create_vector_bucket"}, {"create_index"})
        /\ Precedes({"create_index"}, RoleStepCalls)
        /\ Precedes(RoleStepCalls, {"put_vectors"})
        /\ Precedes({"put_vectors"}, {"create_knowledge_base"})
        /\ \A c \in {"create_vector_bucket", "create_index", "put_vectors",
                     "create_knowledge_base"} : Cardinality(Positions({c})) = 1

C1_Witness ==
    /\ CompleteSucceeded
    /\ Positions({"create_role"}) # {}
    /\ DefaultBucket \notin last.pre.s3v.buckets
    /\ last.pre.bedrock.kbs = <<>>

(***************************************************************************)
(* C4: no step of setup_complete_knowledge_base or of                      *)
(* setup_bedrock_knowledge_base removes anything: every bucket, index,     *)
(* vector, role, policy, attachment and knowledge base that exists before  *)
(* a step exists after it, also when the step fails and the function       *)
(* returns None or re-raises.                                              *)
(***************************************************************************)
NothingRemoved ==
    /\ s3v.buckets \subseteq s3v'.buckets
    /\ \A b \in BucketNames : s3v.indexes[b] \subseteq s3v'.indexes[b]
    /\ s3v.vectors \subseteq s3v'.vectors
    /\ iam.roles \subseteq iam'.roles
    /\ iam.users \subseteq iam'.users
    /\ iam.policies \subseteq iam'.policies
    /\ iam.attached \subseteq iam'.attached
    /\ Len(bedrock.kbs) <= Len(bedrock'.kbs)
    /\ \A k \in DOMAIN bedrock.kbs : KbEntries(bedrock')[k] = KbEntries(bedrock)[k]

C4_NoCompensation == [][NothingRemoved]_vars

\* A failed run that leaves behind a bucket, vectors and a role it created.
C4_Witness ==
    /\ pc = "done"
    /\ last.fn = "setup_complete_knowledge_base"
    /\ last.ret = None
    /\ DefaultBucket \in s3v.buckets \ last.pre.s3v.buckets
    /\ s3v.vectors # {}
    /\ DefaultRole \in iam.roles \ last.pre.iam.roles

(***************************************************************************)
(* C5: setup_complete_knowledge_base returns (knowledge_base_id,           *)
(* vector_index_arn) exactly when all six steps succeeded, and then the    *)
(* resources are there and the last poll saw ACTIVE; otherwise it returns  *)
(* None; no exception leaves it; the first failed step is the last step    *)
(* taken and no API call of a later step is in the log.                    *)
(***************************************************************************)
StepOf(c) ==
    CASE c = "urlopen" -> 1
      [] c \in {"create_vector_bucket", "create_index", "list_indexes"} -> 2
      [] c \in RoleStepCalls -> 3
      [] c \in {"invoke_model", "put_vectors"} -> 4
      [] c \in {"create_knowledge_base", "list_knowledge_bases"} -> 5
      [] c = "get_knowledge_base" -> 6

C5_CompleteReturnsPairIffAllSteps ==
    (pc = "done" /\ last.fn = "setup_complete_knowledge_base") =>
        LET steps == last.steps
            b == last.args[1]
            i == last.args[2]
        IN  /\ ~last.exc
            /\ Len(steps) \in 1..6
            /\ \A j \in 1..(Len(steps) - 1) : steps[j]
            /\ \A j \in DOMAIN calls : StepOf(calls[j]) <= Len(steps)
            /\ (last.ret # None) <=> (Len(steps) = 6 /\ steps[6])
            /\ last.ret # None =>
                 /\ last.ret = <<last.knowledge_base_id, last.vector_index_arn>>
                 /\ last.knowledge_base_id # None
                 /\ last.vector_index_arn # None
                 /\ b \in s3v.buckets /\ i \in s3v.indexes[b]
                 /\ DefaultRole \in iam.roles
                 /\ \E v \in s3v.vectors : v[1] = b /\ v[2] = i
                 /\ \E kb \in KbNamed(bedrock, last.args[3]) :
                      kb.knowledgeBaseId = last.knowledge_base_id
                 /\ last.polls # <<>> /\ last.polls[Len(last.polls)] = "ACTIVE"

\* A run that fails at step 4 after three successful steps.
C5_Witness ==
    /\ pc = "done"
    /\ last.fn = "setup_complete_knowledge_base"
    /\ last.ret = None
    /\ last.steps = <<TRUE, TRUE, TRUE, FALSE>>
    /\ Positions({"invoke_model"}) # {}

(***************************************************************************)
(* C2: setup_s3_vectors is idempotent.  A call in which no API call raises *)
(* an unexpected error returns an ARN, leaves the named bucket and index   *)
(* in place and adds nothing else; it adds no bucket when the bucket       *)
(* existed and no index when the index existed; and a second call with the *)
(* same names changes nothing and returns what the first call returned.    *)
(***************************************************************************)
S3CallOK(c) == c.fn = "setup_s3_vectors" /\ c.F = {}

C3_CreateKnowledgeBaseReuses ==
    /\ \A j, k \in DOMAIN bedrock.kbs :
         bedrock.kbs[j].name = bedrock.kbs[k].name => j = k
    /\ last.fn = "create_knowledge_base" =>
         LET n == last.args[2]
             existing == KbNamed(last.pre, n)
             conflict == /\ "kb.create:Other" \notin last.F
                         /\ (existing # {} \/ "kb.create:ConflictException" \in last.F)
         IN  /\ ~last.exc
             /\ (conflict /\ existing # {} /\ "kb.list_knowledge_bases" \notin last.F) =>
                    /\ \E kb \in existing : last.ret = kb.knowledgeBaseId
                    /\ NothingCreated
                    /\ calls = <<"create_knowledge_base", "list_knowledge_bases">>
             /\ "kb.create:Other" \in last.F => (last.ret = None /\ NothingCreated)
             /\ (conflict /\ (existing = {} \/ "kb.list_knowledge_bases" \in last.F)) =>
                    (last.ret = None /\ NothingCreated)
             /\ (existing = {} /\ last.F = {}) =>
                    /\ last.ret # None
                    /\ \E kb \in KbNamed(bedrock, n) : kb.knowledgeBaseId = last.ret
                    /\ Len(bedrock.kbs) = Len(last.pre.kbs) + 1

C3_Witness ==
    /\ last.fn = "create_knowledge_base"
    /\ last.F = {}
    /\ \E kb \in KbNamed(last.pre, last.args[2]) : last.ret = kb.knowledgeBaseId
    /\ Len(bedrock.kbs) = 2

(***************************************************************************)
(* C7: wait_for_knowledge_base_ready returns True only if its last poll    *)
(* saw ACTIVE; it returns False at the first poll that sees FAILED or      *)
(* raises, and after max_wait_time // 2 polls that all saw another status; *)
(* no exception leaves it.  polls is the sequence of poll results.         *)
(***************************************************************************)
C7_WaitForKnowledgeBaseReady ==
    last.fn = "wait_for_knowledge_base_ready" =>
        LET polls == last.polls
            limit == last.args[2] \div 2
            final == {"ACTIVE", "FAILED", "raise"}
        IN  /\ ~last.exc
            /\ last.ret \in BOOLEAN
            /\ Len(polls) <= limit
            /\ Len(SelectSeq(calls, LAMBDA c : c = "get_knowledge_base")) = Len(polls)
            /\ \A j \in 1..(Len(polls) - 1) : polls[j] \notin final
            /\ last.ret <=> (polls # <<>> /\ polls[Len(polls)] = "ACTIVE")
            /\ (polls = <<>> \/ polls[Len(polls)] \notin final) => Len(polls) = limit

C7_Witness ==
    /\ last.fn = "wait_for_knowledge_base_ready"
    /\ last.ret = TRUE
    /\ Len(last.polls) = 2

(***************************************************************************)
(* C6: a non-None result of setup_s3_vectors is the ARN of the index named *)
(* vector_index_name in the bucket vector_bucket_name.                     *)
(***************************************************************************)
C6_ReturnsNamedIndexArn ==
    (last.fn = "setup_s3_vectors" /\ last.ret # None) =>
        last.ret = IndexArn(last.args[1], last.args[2])

(***************************************************************************)
(* C8: when create_knowledge_base_role returns a role ARN, the role exists *)
(* and AmazonBedrockFullAccess, AmazonS3FullAccess and the custom          *)
(* <role_name>-s3vectors-policy are attached to it.                        *)
(***************************************************************************)
NecessaryPolicies(role_name) ==
    {AmazonBedrockFullAccess, AmazonS3FullAccess,
     PolicyArn(Account, CustomPolicyName(role_name))}

C8_RoleHasNecessaryPolicies ==
    (last.fn = "create_knowledge_base_role" /\ last.ret # None) =>
        /\ last.args[1] \in iam.roles
        /\ \A arn \in NecessaryPolicies(last.args[1]) :
              <<"role", last.args[1], arn>> \in iam.attached

(***************************************************************************)
(* C9: attach_policy.  Shared parts of the original and the amended claim: *)
(* (True, arn) is returned only if the policy is attached on return;       *)
(* (False, None) is returned and the attachments are unchanged for an      *)
(* unknown principal type, a missing principal or a failed attach call;    *)
(* a call that finds the policy attached leaves the state as it was.       *)
(***************************************************************************)
AttachCall == last.fn = "attach_policy"
AttachKey == <<last.args[1], last.args[2], last.args[3]>>
AttachIssued == \E j \in DOMAIN calls : calls[j] \in {"attach_user_policy", "attach_role_policy"}
AttachFailed == AttachIssued /\ ("attach.attach" \in last.F \/ ~PolicyExists(last.pre, last.args[3]))
ListingFailed == \E f \in last.F : f \in {"attach.list_attached:ClientError", "attach.list_attached:Other"}

C9_Common ==
    AttachCall =>
        /\ last.ret \in {<<TRUE, last.args[3]>>, <<FALSE, None>>}
        /\ last.ret[1] => AttachKey \in iam.attached
        /\ (\/ last.args[1] \notin {"user", "role"}
            \/ ~PrincipalExists(last.pre, last.args[1], last.args[2])
            \/ AttachFailed) => (last.ret = <<FALSE, None>> /\ iam = last.pre)
        /\ AttachKey \in last.pre.attached => iam = last.pre
        /\ last.ret[1] =>
              \A F \in FaultSets(AttachSites) :
                 attach_policy(iam, last.args[1], last.args[2], last.args[3], F).s = iam

\* C9 as stated: an attached policy never leads to an attach call.
C9_AttachPolicyOriginal ==
    /\ C9_Common
    /\ (AttachCall /\ AttachKey \in last.pre.attached) => ~AttachIssued

\* C9 amended: an attached policy leads to no attach call when the listing
\* of the attached policies succeeded.
C9_AttachPolicy ==
    /\ C9_Common
    /\ (AttachCall /\ AttachKey \in last.pre.attached /\ ~ListingFailed) => ~AttachIssued

C9_Witness ==
    /\ AttachCall /\ AttachKey \in last.pre.attached
    /\ last.ret = <<TRUE, last.args[3]>>
    /\ ~AttachIssued
    /\ Len(calls) = 2

(***************************************************************************)
(* C10: create_policy.  A policy that exists keeps its stored document and *)
(* its ARN is returned; a policy that does not exist is created with the   *)
(* given document; the ARN returned is the same in both cases; any other   *)
(* failure gives None.                                                     *)
(***************************************************************************)
C10_CreatePolicyIfMissing ==
    last.fn = "create_policy" =>
        LET pn == last.args[1]
            existing == {p \in last.pre.policies : p.name = pn}
            arn == PolicyArn(Account, pn)
        IN  /\ existing # {} => iam = last.pre
            /\ (existing # {} /\ last.F = {}) =>
                  (last.ret = arn /\ \A p \in existing : p.arn = last.ret)
            /\ (existing = {} /\ last.F = {}) =>
                  /\ last.ret = arn
                  /\ iam.policies = last.pre.policies \cup
                        {[name |-> pn, arn |-> last.ret,
                          document |-> JsonDumps(last.args[2])]}
            /\ last.F # {} => last.ret = None
            /\ ~last.exc
            /\ iam.roles = last.pre.roles /\ iam.users = last.pre.users
            /\ iam.attached = last.pre.attached

C10_Witness ==
    /\ last.fn = "create_policy"
    /\ \E p \in last.pre.policies :
          /\ p.name = last.args[1]
          /\ p.document # JsonDumps(last.args[2])
          /\ p \in iam.policies
          /\ last.ret = p.arn

(***************************************************************************)
(* C11 as stated: create_guardrail returns None or a dict whose            *)
(* guardrailId is the id of a guardrail named aws-assistant-guardrail, the *)
(* answer of the create request when the guardrail was created; at most    *)
(* one guardrail of that name exists; and once one exists every call       *)
(* returns its id.                                                         *)
(***************************************************************************)
GuardrailsNamed(s) ==
    {s.guardrails[k] : k \in {j \in DOMAIN s.guardrails :
                                s.guardrails[j].name = guardrail_name}}

C11_Common ==
    /\ Cardinality(GuardrailsNamed(bedrock)) <= 1
    /\ last.fn = "create_guardrail" =>
         /\ ~last.exc
         /\ last.ret # None =>
              /\ last.ret.guardrailId # None
              /\ \E g \in GuardrailsNamed(bedrock) :
                   /\ last.ret.guardrailId = g.id
                   /\ last.ret.guardrailArn = g.arn
         /\ GuardrailsNamed(last.pre) = {} /\ GuardrailsNamed(bedrock) # {} =>
              /\ last.ret # None
              /\ calls = <<"create_guardrail">>
         /\ GuardrailsNamed(last.pre) # {} =>
              GuardrailsNamed(bedrock) = GuardrailsNamed(last.pre)

C11_CreateGuardrailOriginal ==
    /\ C11_Common
    /\ last.fn = "create_guardrail" /\ GuardrailsNamed(last.pre) # {} =>
         last.ret # None

(***************************************************************************)
(* C11 amended: as above, but once a guardrail of the name exists a call   *)
(* returns its id unless the create request fails with an error other than *)
(* the name conflict or the listing of guardrails fails, and then it       *)
(* returns None.                                                           *)
(***************************************************************************)
C11_CreateGuardrail ==
    /\ C11_Common
    /\ last.fn = "create_guardrail" /\ GuardrailsNamed(last.pre) # {} =>
         (last.ret = None <=>
            last.F \cap {"guardrail.create:Other", "guardrail.list_guardrails"} # {})

\* A second call that finds the guardrail created by the first and returns
\* the same id after the name conflict.
C11_Witness ==
    /\ ncalls = 2
    /\ last.fn = "create_guardrail" /\ prev.fn = "create_guardrail"
    /\ GuardrailsNamed(prev.pre) = {}
    /\ prev.ret # None /\ last.ret # None
    /\ last.ret.guardrailId = prev.ret.guardrailId
    /\ calls = <<"create_guardrail", "list_guardrails">>

(***************************************************************************)
(* C12: every run of enable_model that reports status enabled has made     *)
(* exactly one model invocation, and made it after the last readiness      *)
(* poll.                                                                   *)
(***************************************************************************)
ModelInvocations == {"invoke_model", "invoke_model_with_response_stream",
                     "converse", "converse_stream"}
EnableDone == last.fn = "enable_model"

C12_InvokesModelOnce ==
    EnableDone /\ last.ret.status = "enabled" =>
      /\ Cardinality(Positions(ModelInvocations)) = 1
      /\ \A j \in Positions(ModelInvocations) :
           \A o \in DOMAIN last.run.observed : last.run.observed[o].at < j

(***************************************************************************)
(* C13 as stated: enable_model takes its steps in the order agreement, use *)
(* case, entitlement, polling; it creates an agreement at most once and    *)
(* only when the agreement read at start is not AVAILABLE; it submits the  *)
(* use-case form only when a use-case JSON is configured; it posts the     *)
(* entitlement request only when the entitlement observed last is not      *)
(* AVAILABLE; polling starts after these; a model without offers ends the  *)
(* run with status error before any later step; and a failure of the      *)
(* use-case or entitlement step does not end the run.                      *)
(***************************************************************************)
AgreementCalls == Positions({"create_foundation_model_agreement"})
UseCaseCalls == Positions({"put_use_case_for_model_access"})
EntitlementCalls == Positions({"POST foundation-model-entitlement"})
PollingStarted == last.run.wait_from > 0
StartState == last.run.observed[1].state
ObservedBefore(j) ==
    LET before == {o \in DOMAIN last.run.observed : last.run.observed[o].at < j}
    IN  last.run.observed[CHOOSE o \in before : \A q \in before : q <= o].state
FirstFailure == IF last.run.failed = <<>> THEN "none" ELSE last.run.failed[1]
RunWentOn(j) == Len(calls) > j

C13_Common ==
    EnableDone =>
      /\ \A a \in AgreementCalls, u \in UseCaseCalls : a < u
      /\ \A a \in AgreementCalls \cup UseCaseCalls, e \in EntitlementCalls : a < e
      /\ PollingStarted =>
           \A c \in AgreementCalls \cup UseCaseCalls \cup EntitlementCalls :
              c < last.run.wait_from
      /\ last.ret.status \in {"enabled", "timeout"} => PollingStarted
      /\ Cardinality(AgreementCalls) <= 1
      /\ AgreementCalls # {} => StartState.agreement # "AVAILABLE"
      /\ Cardinality(UseCaseCalls) <= 1
      /\ UseCaseCalls # {} => last.run.submit_use_case_json \notin {None, Str("")}
      /\ Cardinality(EntitlementCalls) <= 1
      /\ \A e \in EntitlementCalls : ObservedBefore(e).entitlement # "AVAILABLE"
      /\ ( /\ FirstFailure = "none"
           /\ last.run.observed # <<>>
           /\ StartState.region # "NOT_AVAILABLE"
           /\ StartState.agreement # "AVAILABLE"
           /\ last.pre.offers = <<>> ) =>
           /\ last.ret.status = "error"
           /\ calls = <<"get_foundation_model_availability",
                        "list_foundation_model_agreement_offers">>
           /\ ~PollingStarted
      /\ FirstFailure \in {"entitlement:HTTPError", "entitlement:Other",
                           "entitlement:read"} => PollingStarted

C13_EnableStepsOriginal ==
    /\ C13_Common
    /\ EnableDone /\ FirstFailure \in {"use_case:ClientError", "use_case:Other"} =>
         \A u \in UseCaseCalls : RunWentOn(u)

(***************************************************************************)
(* C13 amended: as above, but of the failures of the use-case step only a  *)
(* ClientError lets the run go on; any other exception of the use-case     *)
(* submission ends the run with status error before the entitlement step   *)
(* and the polling.                                                        *)
(***************************************************************************)
C13_EnableSteps ==
    /\ C13_Common
    /\ EnableDone /\ FirstFailure = "use_case:ClientError" =>
         \A u \in UseCaseCalls : RunWentOn(u)
    /\ EnableDone /\ FirstFailure = "use_case:Other" =>
         /\ last.ret.status = "error"
         /\ \A u \in UseCaseCalls : ~RunWentOn(u)
         /\ EntitlementCalls = {}
         /\ ~PollingStarted

\* A run that accepts an offer, has its use-case submission refused with a
\* ClientError, posts the entitlement request, polls and reports enabled.
C13_Witness ==
    /\ EnableDone
    /\ AgreementCalls # {} /\ UseCaseCalls # {} /\ EntitlementCalls # {}
    /\ FirstFailure = "use_case:ClientError"
    /\ PollingStarted
    /\ last.ret.status = "enabled"

====
